---- MODULE Spec2Model ----
(***************************************************************************)
(* A model of hurl (src/include/hurl.h): the transport handle, the request *)
(* executors detail::get / detail::post / detail::download, the free       *)
(* functions and the client session that reuses one handle.                *)
(*                                                                         *)
(* Text is a sequence of one-character strings.  A byte buffer is the      *)
(* record [size, fill, gz, ok]: a payload of `size` bytes of pattern       *)
(* `fill`, wrapped in `gz` gzip streams, the outermost one complete iff    *)
(* `ok`.  libcurl and zlib are the environment: the transfer's result code,*)
(* the response and the failure of an option call are chosen freely.       *)
(***************************************************************************)
EXTENDS Integers, Sequences, FiniteSets, TLC

\* ------------------------------------------------------------------ bounds
MaxCalls == 2
MaxHandles == 2
MaxSetCookie == 1

\* ------------------------------------------------- libcurl / program numbers
CURLE_OK == 0
CURLE_COULDNT_RESOLVE_HOST == 6
CURLE_COULDNT_CONNECT == 7
CURLE_OPERATION_TIMEDOUT == 28
CURLE_GOT_NOTHING == 52
CURLE_OUT_OF_MEMORY == 27
GZIP_POST_THRESHOLD == 10240

\* --------------------------------------------------------------------- text
Upper == <<"A","B","C","D","E","F","G","H","I","J","K","L","M",
           "N","O","P","Q","R","S","T","U","V","W","X","Y","Z">>
Lower == <<"a","b","c","d","e","f","g","h","i","j","k","l","m",
           "n","o","p","q","r","s","t","u","v","w","x","y","z">>

tolowerChar(c) ==
    IF \E i \in 1..26 : Upper[i] = c
    THEN Lower[CHOOSE i \in 1..26 : Upper[i] = c]
    ELSE c

tolower(s) == [i \in 1..Len(s) |-> tolowerChar(s[i])]

isspace(c) == c \in {" ", "\t", "\n", "\r", "\f"}

\* first position of a non-space character, Len(s)+1 when there is none
FirstNonSpace(s) ==
    IF \E i \in 1..Len(s) : ~isspace(s[i])
    THEN CHOOSE i \in 1..Len(s) : ~isspace(s[i]) /\ \A j \in 1..(i-1) : isspace(s[j])
    ELSE Len(s) + 1

\* last position of a non-space character, 0 when there is none
LastNonSpace(s) ==
    IF \E i \in 1..Len(s) : ~isspace(s[i])
    THEN CHOOSE i \in 1..Len(s) : ~isspace(s[i]) /\ \A j \in (i+1)..Len(s) : isspace(s[j])
    ELSE 0

ltrim(s) == SubSeq(s, FirstNonSpace(s), Len(s))

rtrim(s) == SubSeq(s, 1, LastNonSpace(s))

trim(s) == ltrim(rtrim(s))

\* header.find(':'): position of the first ':', 0 for npos
FindColon(s) ==
    IF \E i \in 1..Len(s) : s[i] = ":"
    THEN CHOOSE i \in 1..Len(s) : s[i] = ":" /\ \A j \in 1..(i-1) : s[j] # ":"
    ELSE 0

\* faulty variant: a name that is already stored keeps its value
headerfunc_keepfirst(hdrs, line) ==
    LET cpos == FindColon(line) IN
    IF cpos # 0 /\ tolower(SubSeq(line, 1, cpos - 1)) \notin DOMAIN hdrs
    THEN LET name  == tolower(SubSeq(line, 1, cpos - 1))
             value == trim(SubSeq(line, cpos + 1, Len(line)))
         IN [n \in (DOMAIN hdrs) \cup {name} |-> IF n = name THEN value ELSE hdrs[n]]
    ELSE hdrs

\* the header callback: resp->headers[name] = value when the line has a ':'
headerfunc(hdrs, line) ==
    LET cpos == FindColon(line) IN
    IF cpos # 0
    THEN LET name  == tolower(SubSeq(line, 1, cpos - 1))
             value == trim(SubSeq(line, cpos + 1, Len(line)))
         IN [n \in (DOMAIN hdrs) \cup {name} |-> IF n = name THEN value ELSE hdrs[n]]
    ELSE hdrs

NoHeaders == [n \in {} |-> <<>>]

RECURSIVE ParseHeaders(_, _)
\* the header callback applied to every received line in order
ParseHeaders(hdrs, lines) ==
    IF lines = <<>> THEN hdrs
    ELSE ParseHeaders(headerfunc(hdrs, Head(lines)), Tail(lines))

ContentEncodingKey == <<"c","o","n","t","e","n","t","-","e","n","c","o","d","i","n","g">>
GzipWord == <<"g","z","i","p">>

\* the printable characters of type char in ascending order of their code,
\* from the space to the underscore, and from "a" to the tilde
Printable ==
    <<" ","!","\"","#","$","%","&","'","(",")","*","+",",","-",".","/",
      "0","1","2","3","4","5","6","7","8","9",":",";","<","=",">","?","@">>
    \o Upper \o <<"[","\\","]","^","_">>

PrintableHigh == Lower \o <<"{","|","}","~">>

CharCode(c) ==
    IF \E i \in 1..Len(Printable) : Printable[i] = c
    THEN 31 + (CHOOSE i \in 1..Len(Printable) : Printable[i] = c)
    ELSE 96 + (CHOOSE i \in 1..Len(PrintableHigh) : PrintableHigh[i] = c)

\* the characters curl_easy_escape leaves as they are
isunreserved(c) ==
    \/ CharCode(c) \in CharCode("0")..CharCode("9")
    \/ CharCode(c) \in CharCode("A")..CharCode("Z")
    \/ CharCode(c) \in CharCode("a")..CharCode("z")
    \/ c \in {"-", ".", "_", "~"}

\* curl_easy_escape: every other character becomes %XX, XX its code in hex
EscapeChar(c) ==
    LET hex == <<"0","1","2","3","4","5","6","7","8","9","A","B","C","D","E","F">>
    IN IF isunreserved(c) THEN <<c>>
       ELSE <<"%", hex[(CharCode(c) \div 16) + 1], hex[(CharCode(c) % 16) + 1]>>

RECURSIVE curl_easy_escape(_)
curl_easy_escape(s) ==
    IF s = <<>> THEN <<>> ELSE EscapeChar(Head(s)) \o curl_easy_escape(Tail(s))

\* std::less<std::string>: lexicographic by character code
StrLess(a, b) ==
    \E k \in 1..(Len(a) + 1) :
        /\ k <= Len(b)
        /\ \A j \in 1..(k - 1) : a[j] = b[j]
        /\ k = Len(a) + 1 \/ CharCode(a[k]) < CharCode(b[k])

\* faulty variant: the keys are visited in descending order
MapKeys_desc(params) ==
    LET n == Cardinality(DOMAIN params) IN
    CHOOSE ks \in [1..n -> DOMAIN params] :
        \A i \in 1..n : \A j \in 1..n : i < j => StrLess(ks[j], ks[i])

\* httpparams is a std::map: iteration from begin() to end() visits the keys
\* in ascending order
MapKeys(params) ==
    LET n == Cardinality(DOMAIN params) IN
    CHOOSE ks \in [1..n -> DOMAIN params] :
        \A i \in 1..n : \A j \in 1..n : i < j => StrLess(ks[i], ks[j])

\* the loop of detail::serialize from the i-th entry on
RECURSIVE SerializeFrom(_, _, _)
SerializeFrom(params, ks, i) ==
    IF i > Len(ks) THEN <<>>
    ELSE (IF i # 1 THEN <<"&">> ELSE <<>>)
         \o curl_easy_escape(ks[i]) \o <<"=">> \o curl_easy_escape(params[ks[i]])
         \o SerializeFrom(params, ks, i + 1)

\* detail::serialize
serialize(params) == SerializeFrom(params, MapKeys(params), 1)

\* detail::query
query(url, params) == url \o <<"?">> \o serialize(params)


\* ----------------------------------------------------------- byte buffers
EmptyBuf == [size |-> 0, fill |-> 0, gz |-> 0, ok |-> TRUE]

RawBuf(n, f) == [size |-> n, fill |-> f, gz |-> 0, ok |-> TRUE]

\* the bytes of a text
TextBuf(t) == RawBuf(Len(t), t)

\* data.size() of caller data (an unwrapped buffer)
Size(b) == b.size

\* detail::gzip: one complete gzip stream around the input
gzip(b) == [b EXCEPT !.gz = @ + 1, !.ok = TRUE]

\* detail::gunzip succeeds exactly on a complete gzip stream (inflate ends
\* with Z_STREAM_END); anything else throws "failed to completely inflate"
gunzipOk(b) == b.gz > 0 /\ b.ok

gunzip(b) == [b EXCEPT !.gz = @ - 1, !.ok = TRUE]

\* the code inflate ends with on a buffer gunzip fails on: no input left
\* (an empty body, a stream cut short) or data that is no gzip stream
gunzipError(b) ==
    IF b.size = 0 \/ b.gz > 0 THEN "Z_BUF_ERROR" ELSE "Z_DATA_ERROR"

\* stream.msg when inflate has returned rc: inflateInit2 sets it to NULL and
\* inflate points it at a text only where it finds invalid data
stream_msg(rc) == IF rc = "Z_DATA_ERROR" THEN "text" ELSE "NULL"

\* std::cerr << ... << stream.msg in the error branch: inserting a null
\* char pointer is undefined; a build either marks the stream bad and goes on
\* to the throw, or reads through the null pointer and the process dies
ErrorBranch(rc) ==
    IF stream_msg(rc) = "NULL" THEN {"raised", "crashed"} ELSE {"raised"}

\* ss.str(): what was written into the in-memory sink
str(s) == IF s = <<>> THEN EmptyBuf ELSE s[1]

\* ------------------------------------------------------------ input domains
HandleIds == 1..MaxHandles
Ops == {"get", "post", "download"}
Bases == {<<"h">>}
UrlPaths == {<<"/","a">>}
Timeouts == {30}
\* a parameter map with two entries, the larger key first in this notation
SomeParams == [k \in {<<"q">>, <<"n">>} |->
                 IF k = <<"q">> THEN <<"a"," ","b">> ELSE <<"1">>]
\* the httpparams argument of a call: <<>> for the overloads without one
ParamArgs == {<<>>, <<SomeParams>>}
PostData == {RawBuf(GZIP_POST_THRESHOLD, 1), RawBuf(GZIP_POST_THRESHOLD + 1, 1)}
LocalPaths == {"f", "nodir/f"}
\* an ofstream can be opened on "f"; the directory of "nodir/f" does not exist
Openable(p) == p = "f"
OldContent == <<RawBuf(7, 9)>>

TransferCodes == {CURLE_OK, CURLE_COULDNT_RESOLVE_HOST, CURLE_COULDNT_CONNECT,
                  CURLE_OPERATION_TIMEDOUT, CURLE_GOT_NOTHING}
SetoptCodes == {CURLE_OUT_OF_MEMORY}
\* the option calls the model lets fail (0: none): the first and the last of
\* prepare_basic, the last of prepare_post
FailPoints == {0, 1, 9, 12}
CookieNames == {<<"s">>}
CookieData == {<<>>, <<"s","\n","p","\n">>}

\* response header lines as the transport hands them to the callback
StatusLine == <<"H","T","T","P","/","1",".","1"," ","2","0","0","\r","\n">>
CEName == <<"C","o","n","t","e","n","t","-","E","n","c","o","d","i","n","g">>
HdrGzip == CEName \o <<":"," ","G","Z","i","p","\r","\n">>
HdrDeflate == CEName \o <<":"," ","d","e","f","l","a","t","e","\r","\n">>
HdrGzipList == ContentEncodingKey \o <<":","g","z","i","p",","," ","b","r","\r","\n">>
HdrOther == <<"X","-","E",":"," ","g","z","i","p","\r","\n">>
Plain == <<StatusLine>>
SaysGzip == <<StatusLine, HdrDeflate, HdrGzip>>
SaysOther == <<StatusLine, HdrGzipList, HdrOther>>
\* bodies a server can send: nothing, plain bytes, a gzip stream, a cut one
PlainBody == RawBuf(5, 2)
GzBody == gzip(RawBuf(5, 2))
CutGzBody == [size |-> 5, fill |-> 2, gz |-> 1, ok |-> FALSE]
Response(st, ls, b, cs) == [status |-> st, lines |-> ls, body |-> b, cookies |-> cs]
\* what the server answers
Responses == { Response(200, Plain, PlainBody, {}),
               Response(404, Plain, EmptyBuf, CookieNames),
               Response(200, SaysGzip, GzBody, CookieNames),
               Response(201, SaysGzip, GzBody, {}),
               Response(200, SaysGzip, CutGzBody, {}),
               Response(404, SaysGzip, PlainBody, {}),
               Response(200, SaysGzip, EmptyBuf, {}),
               Response(404, SaysOther, GzBody, CookieNames) }
NoResponse == Response(0, <<>>, EmptyBuf, {})
\* a body cut short by a transfer that failed under way
Cut(b) == IF b = EmptyBuf THEN b ELSE [b EXCEPT !.ok = FALSE]

\* ----------------------------------------------------------------- options
BasicOpts == <<"URL", "NOSIGNAL", "NOPROGRESS", "WRITEFUNCTION", "WRITEDATA",
               "HEADERFUNCTION", "HEADERDATA", "COOKIEFILE", "TIMEOUT">>
PostOpts == <<"POST", "POSTFIELDS", "POSTFIELDSIZE">>
OptNames == {BasicOpts[i] : i \in 1..Len(BasicOpts)}
            \cup {PostOpts[i] : i \in 1..Len(PostOpts)} \cup {"HTTPHEADER"}
\* curl_easy_reset: every option back to its default (unset)
DefaultOpts == [o \in OptNames |-> <<>>]

\* the call in progress: rel and params are the path (or url) and httpparams
\* arguments, url/data/path/timeout what the executor is called with, tar
\* marks downloadtarball; stale is TRUE when the handle came to the call with
\* header lines pending that an earlier, failed call added and never sent
NoCall == [id |-> 0, op |-> "none", h |-> 0, free |-> FALSE, url |-> <<>>,
           data |-> EmptyBuf, path |-> "", timeout |-> 0, stale |-> FALSE,
           rel |-> <<>>, params |-> <<>>, tar |-> FALSE]
\* downloadtarball's progress: st is "none" outside it, "pending" until the
\* download has returned, then "skipped", "extracted" or "failed"; out is
\* what downloadtarball hands to its caller
NoTar == [st |-> "none", out |-> <<>>]
NoCookieRun == [h |-> 0, list |-> <<>>, out |-> <<>>, freed |-> <<>>]
NoResp == [status |-> -1, body |-> EmptyBuf, headers |-> NoHeaders]
NoErr == [kind |-> "none", code |-> 0]
NoWire == [headers |-> <<>>, cookies |-> {}, post |-> <<>>]
NoXfer == [code |-> -1, status |-> -1, lines |-> <<>>, body |-> EmptyBuf]

VARIABLES hstate, base, timeout, headers, opts, jar, engine, nrelease,
          pc, call, sink, fileOpen, resp, err, fs, tar,
          callCount, nperform, wire, xfer, jarAtBegin, perr,
          nsetcookie, cookieOps, jarBefore, cookieData, cookieHandle,
          cookieRun

hvars == <<hstate, base, timeout, headers, opts, jar, engine, nrelease>>
cvars == <<pc, call, sink, fileOpen, resp, err, tar>>
avars == <<callCount, nperform, wire, xfer, jarAtBegin, perr>>
\* the last setcookie, until the next request begins: its handle and data,
\* the COOKIELIST calls it made and the store as it found it
\* cookieRun: the last cookie(), until the next request begins: its handle,
\* the list getinfo handed out, the string returned and the nodes released
svars == <<nsetcookie, cookieOps, jarBefore, cookieData, cookieHandle, cookieRun>>

\* the runs of single functions, each on an input of its own: zrun for gzip,
\* gunzip and process_response, hrun for a handle's member functions, prun
\* for the header callback, srun for serialize
VARIABLES zrun, hrun, prun, srun

xvars == <<zrun, hrun, prun, srun>>
hurlvars == <<hvars, cvars, avars, svars, fs>>
vars == <<hurlvars, xvars>>

\* no such run
Off == [pc |-> "off"]

NoFile == [exists |-> FALSE, content |-> <<>>]

InitHurl ==
    /\ hstate = [h \in HandleIds |-> "unborn"]
    /\ base = [h \in HandleIds |-> <<>>]
    /\ timeout = [h \in HandleIds |-> 0]
    /\ headers = [h \in HandleIds |-> <<>>]
    /\ opts = [h \in HandleIds |-> DefaultOpts]
    /\ jar = [h \in HandleIds |-> {}]
    /\ engine = [h \in HandleIds |-> FALSE]
    /\ nrelease = [h \in HandleIds |-> 0]
    /\ tar = NoTar
    /\ pc = "idle"
    /\ call = NoCall
    /\ sink = <<>>
    /\ fileOpen = FALSE
    /\ resp = NoResp
    /\ err = NoErr
    /\ fs \in { [p \in LocalPaths |-> NoFile],
                [p \in LocalPaths |-> IF Openable(p)
                                      THEN [exists |-> TRUE, content |-> OldContent]
                                      ELSE NoFile] }
    /\ callCount = 0
    /\ nperform = 0
    /\ wire = NoWire
    /\ xfer = NoXfer
    /\ jarAtBegin = {}
    /\ perr = NoErr
    /\ nsetcookie = 0
    /\ cookieOps = <<>>
    /\ jarBefore = {}
    /\ cookieData = <<>>
    /\ cookieHandle = 0
    /\ cookieRun = NoCookieRun

Init ==
    /\ InitHurl
    /\ zrun = Off
    /\ hrun = Off
    /\ prun = Off
    /\ srun = Off


\* ------------------------------------------------------- handle operations
\* faulty variant: every handle draws on one cookie store shared by all
curl_easy_init_shared == UNION {jar[g] : g \in HandleIds}

\* curl_easy_init: a new easy handle has its own, empty cookie store
curl_easy_init == {}

\* handle::add_header: curl_slist_append to the pending list (tagged with the
\* call that added the line)
add_header(hs, line) == Append(hs, [line |-> line, call |-> call.id])

\* faulty variant: the pending list is not emptied
clear_headers_keep(hs) == hs

\* handle::clear_headers: curl_slist_free_all, headers_ = NULL
clear_headers(hs) == <<>>

\* faulty variant: resetting the handle also drops its cookies
curl_easy_reset_wipe(j) == {}

\* curl_easy_reset leaves the handle's cookies as they are
curl_easy_reset(j) == j

\* faulty variant: the resolve-failure branch is missing
perform_noresolve(code) ==
    IF code = CURLE_OK THEN [kind |-> "none", code |-> 0]
    ELSE IF code = CURLE_OPERATION_TIMEDOUT THEN [kind |-> "timeout", code |-> code]
    ELSE IF code = CURLE_COULDNT_CONNECT THEN [kind |-> "connect_error", code |-> code]
    ELSE [kind |-> "curl_error", code |-> code]

\* handle::perform's translation of the transfer's result code
perform(code) ==
    IF code = CURLE_OK THEN NoErr
    ELSE IF code = CURLE_OPERATION_TIMEDOUT THEN [kind |-> "timeout", code |-> code]
    ELSE IF code = CURLE_COULDNT_RESOLVE_HOST THEN [kind |-> "resolve_error", code |-> code]
    ELSE IF code = CURLE_COULDNT_CONNECT THEN [kind |-> "connect_error", code |-> code]
    ELSE [kind |-> "curl_error", code |-> code]

\* handle::setopt / handle::getinfo throw curl_error(code) on a non-OK code
setopt(code) == [kind |-> "curl_error", code |-> code]

\* faulty variant: the transfer is tried a second time before giving up
AfterThrow_retry(n) == IF n < 2 THEN "prepared" ELSE "raised"

\* where control is after perform threw inside detail::get/post/download:
\* there is no handler, the exception leaves the call
AfterThrow(n) == "raised"

\* handle::handle: a new easy handle, headers_(NULL)
NewHandleSt ==
    [headers |-> <<>>, opts |-> DefaultOpts, jar |-> curl_easy_init, engine |-> FALSE]

\* faulty variant: the options are left as they were
reset_keepopts(st) == [st EXCEPT !.headers = clear_headers(st.headers)]

\* handle::reset on handle state st: clear_headers, then curl_easy_reset puts
\* every option back to its default and keeps the cookies
reset(st) ==
    [headers |-> clear_headers(st.headers),
     opts    |-> DefaultOpts,
     jar     |-> curl_easy_reset(st.jar),
     engine  |-> st.engine]

\* the value each option gets in prepare_basic
BasicValue(o, c) ==
    CASE o = "URL"            -> <<c.url>>
      [] o = "NOSIGNAL"       -> <<1>>
      [] o = "NOPROGRESS"     -> <<1>>
      [] o = "WRITEFUNCTION"  -> <<"streamfunc">>
      [] o = "WRITEDATA"      -> <<c.id>>
      [] o = "HEADERFUNCTION" -> <<"headerfunc">>
      [] o = "HEADERDATA"     -> <<c.id>>
      [] o = "COOKIEFILE"     -> <<"">>
      [] o = "TIMEOUT"        -> <<c.timeout>>

PostValue(o, sent) ==
    CASE o = "POST"          -> <<1>>
      [] o = "POSTFIELDS"    -> <<sent>>
      [] o = "POSTFIELDSIZE" -> <<"data.size()">>

\* position of an option in a list of options, 0 when it is not there
Pos(list, o) ==
    IF \E i \in 1..Len(list) : list[i] = o
    THEN CHOOSE i \in 1..Len(list) : list[i] = o
    ELSE 0

\* faulty variant: a handle that has a sink and a response object configured
\* keeps them; only a handle without them is given the call's own
prepare_basic_once(st, c, accept_compression, failAt) ==
    LET done(o) == Pos(BasicOpts, o) # 0 /\ (failAt = 0 \/ Pos(BasicOpts, o) < failAt)
        kept(o) == o \in {"WRITEDATA", "HEADERDATA"} /\ st.opts[o] # <<>>
        r == reset(st)
    IN [ headers |-> IF failAt = 0 /\ accept_compression
                     THEN add_header(r.headers, "Accept-encoding: gzip")
                     ELSE r.headers,
         opts    |-> [o \in OptNames |-> IF kept(o) THEN st.opts[o]
                                         ELSE IF done(o) THEN BasicValue(o, c)
                                         ELSE r.opts[o]],
         jar     |-> r.jar,
         engine  |-> r.engine \/ done("COOKIEFILE") ]

\* detail::prepare_basic on handle state st = [headers, opts, jar, engine];
\* failAt = 0: every setopt succeeds, failAt = i: the i-th setopt throws
prepare_basic(st, c, accept_compression, failAt) ==
    LET done(o) == Pos(BasicOpts, o) # 0 /\ (failAt = 0 \/ Pos(BasicOpts, o) < failAt)
        r == reset(st)
    IN [ headers |-> IF failAt = 0 /\ accept_compression
                     THEN add_header(r.headers, "Accept-encoding: gzip")
                     ELSE r.headers,
         opts    |-> [o \in OptNames |-> IF done(o) THEN BasicValue(o, c) ELSE r.opts[o]],
         jar     |-> r.jar,
         engine  |-> r.engine \/ done("COOKIEFILE") ]

\* faulty variant: Expect: is only added to a compressed POST
prepare_post_expect(st, sent, is_compressed, failAt) ==
    LET done(o) == Pos(PostOpts, o) # 0 /\ (failAt = 0 \/ Pos(PostOpts, o) < failAt)
        hs1 == IF failAt = 0 /\ is_compressed
               THEN add_header(add_header(st.headers, "Expect:"), "Content-Encoding: gzip")
               ELSE st.headers
    IN [ st EXCEPT
         !.headers = hs1,
         !.opts    = [o \in OptNames |-> IF done(o) THEN PostValue(o, sent) ELSE st.opts[o]] ]

\* detail::prepare_post; failAt as above, over the three POST options
prepare_post(st, sent, is_compressed, failAt) ==
    LET done(o) == Pos(PostOpts, o) # 0 /\ (failAt = 0 \/ Pos(PostOpts, o) < failAt)
        hs1 == IF failAt = 0 THEN add_header(st.headers, "Expect:") ELSE st.headers
    IN [ st EXCEPT
         !.headers = IF failAt = 0 /\ is_compressed
                     THEN add_header(hs1, "Content-Encoding: gzip")
                     ELSE hs1,
         !.opts    = [o \in OptNames |-> IF done(o) THEN PostValue(o, sent) ELSE st.opts[o]] ]

\* faulty variant: the threshold is inclusive
compressed_ge(data) == Size(data) >= GZIP_POST_THRESHOLD

\* detail::post: "apply gzip compression to request data over 10KB"
compressed(data) == Size(data) > GZIP_POST_THRESHOLD

\* faulty variant: the file is opened without truncation
ofstream_notrunc(f) == [exists |-> TRUE, content |-> f.content]

\* std::ofstream(localpath, out | binary | trunc) on a path that can be opened
ofstream(f) == [exists |-> TRUE, content |-> <<>>]

\* streamfunc: (*out).write(ptr, size * nmemb)
streamfunc(out, chunk) == Append(out, chunk)

\* where the body bytes of a transfer go, by the options o of the handle,
\* during call c: into c's sink through streamfunc ("own"), to libcurl's
\* default, the standard output ("stdout"), or through a reference to an
\* object that is not c's ("wild")
BodyTo(o, c) ==
    IF o["WRITEFUNCTION"] = <<"streamfunc">> /\ o["WRITEDATA"] = <<c.id>> THEN "own"
    ELSE IF o["WRITEFUNCTION"] = <<>> /\ o["WRITEDATA"] = <<>> THEN "stdout"
    ELSE "wild"

\* where the header lines go: into c's response object through headerfunc,
\* nowhere when no header callback is set, or through a reference to an
\* object that is not c's
HeadersTo(o, c) ==
    IF o["HEADERFUNCTION"] = <<"headerfunc">> /\ o["HEADERDATA"] = <<c.id>> THEN "own"
    ELSE IF o["HEADERFUNCTION"] = <<>> /\ o["HEADERDATA"] = <<>> THEN "nowhere"
    ELSE "wild"

\* faulty variant: the encoding is compared case-sensitively
process_response_cs(hdrs) ==
    /\ ContentEncodingKey \in DOMAIN hdrs
    /\ hdrs[ContentEncodingKey] = GzipWord

\* detail::process_response: is the body to be gunzipped
process_response(hdrs) ==
    /\ ContentEncodingKey \in DOMAIN hdrs
    /\ tolower(hdrs[ContentEncodingKey]) = GzipWord

\* which executors call process_response
Decodes(op) == op \in {"get", "post"}

\* faulty variant: the status is taken to be 200
RESPONSE_CODE_200(x) == 200

\* getinfo(CURLINFO_RESPONSE_CODE, &result.status)
RESPONSE_CODE(x) == x.status

\* the lines std::getline yields in client::setcookie's loop
FindNewline(d) ==
    IF \E i \in 1..Len(d) : d[i] = "\n"
    THEN CHOOSE i \in 1..Len(d) : d[i] = "\n" /\ \A j \in 1..(i-1) : d[j] # "\n"
    ELSE 0

RECURSIVE getlines(_)
getlines(d) ==
    LET nl == FindNewline(d) IN
    IF nl = 0 THEN <<d>>
    ELSE <<SubSeq(d, 1, nl - 1)>> \o getlines(SubSeq(d, nl + 1, Len(d)))

\* faulty variant: "ALL" leaves the store as it is
COOKIELIST_ALL_keep(j) == j

\* CURLOPT_COOKIELIST with "ALL": erases every cookie held in memory
COOKIELIST_ALL(j) == {}

\* a cookie line the cookie engine accepts; others add nothing
IsCookieLine(l) == Len(l) = 1 /\ l[1] \in {"s", "p"}

\* CURLOPT_COOKIELIST with each line in turn, on cookie store j
RECURSIVE AddCookieLines(_, _)
AddCookieLines(j, lines) ==
    IF lines = <<>> THEN j
    ELSE AddCookieLines(IF IsCookieLine(Head(lines))
                        THEN j \cup {[name |-> Head(lines), origin |-> 0]}
                        ELSE j,
                        Tail(lines))


\* ---------------------------------------------------------------- actions
Unborn == {h \in HandleIds : hstate[h] = "unborn"}
\* handles are numbered in the order they are created
NewHandle == CHOOSE h \in Unborn : \A g \in Unborn : h <= g

HandleSt(h) == [headers |-> headers[h], opts |-> opts[h],
                jar |-> jar[h], engine |-> engine[h]]

\* faulty variant: the handle's destructor runs on a normal return only
ScopeExit_noexc(how) == how = "returned"

\* a detail::handle with automatic storage ("detail::handle curl;") is
\* destroyed on every way out of its scope, by return or by exception
ScopeExit(how) == how \in {"returned", "raised"}

\* handle::~handle: clear_headers, curl_easy_cleanup
DestroyHandle(h) ==
    /\ hstate' = [hstate EXCEPT ![h] = "released"]
    /\ headers' = [headers EXCEPT ![h] = clear_headers(headers[h])]
    /\ opts' = [opts EXCEPT ![h] = DefaultOpts]
    /\ jar' = [jar EXCEPT ![h] = {}]
    /\ engine' = [engine EXCEPT ![h] = FALSE]
    /\ nrelease' = [nrelease EXCEPT ![h] = @ + 1]

\* client::client: impl owns a new handle, base_ and timeout_
ClientNew(b, t) ==
    /\ pc = "idle"
    /\ Unborn # {}
    /\ LET h == NewHandle IN
       /\ hstate' = [hstate EXCEPT ![h] = "client"]
       /\ base' = [base EXCEPT ![h] = b]
       /\ timeout' = [timeout EXCEPT ![h] = t]
       /\ jar' = [jar EXCEPT ![h] = curl_easy_init]
    /\ UNCHANGED <<headers, opts, engine, nrelease, cvars, avars, svars, fs>>
    /\ UNCHANGED xvars

\* client::~client: the auto_ptr deletes impl, whose handle_ is destroyed
ClientDestroy(h) ==
    /\ pc = "idle"
    /\ hstate[h] = "client"
    /\ DestroyHandle(h)
    /\ UNCHANGED <<base, timeout, cvars, avars, svars, fs>>
    /\ UNCHANGED xvars

\* entry of detail::get/post/download: httpresponse result and the sink are
\* constructed; download's ofstream opens (and truncates) localpath
Enter(c) ==
    /\ pc' = "begun"
    /\ call' = c
    /\ callCount' = c.id
    /\ tar' = IF c.tar THEN [st |-> "pending", out |-> <<>>] ELSE NoTar
    /\ cookieOps' = <<>>
    /\ jarBefore' = {}
    /\ cookieData' = <<>>
    /\ cookieHandle' = 0
    /\ cookieRun' = NoCookieRun
    /\ resp' = NoResp
    /\ sink' = <<>>
    /\ err' = NoErr
    /\ perr' = NoErr
    /\ nperform' = 0
    /\ wire' = NoWire
    /\ xfer' = NoXfer
    /\ IF c.op = "download"
       THEN /\ fileOpen' = Openable(c.path)
            /\ fs' = IF Openable(c.path)
                     THEN [fs EXCEPT ![c.path] = ofstream(fs[c.path])]
                     ELSE fs
       ELSE /\ fileOpen' = FALSE
            /\ fs' = fs

\* the overloads: httpparams with get and post, a data string with post
\* when there are no params, a local path with download and downloadtarball
Args(op, ps, data, lp, t) ==
    /\ ps \in (IF op \in {"get", "post"} THEN ParamArgs ELSE {<<>>})
    /\ data \in (IF op = "post" /\ ps = <<>> THEN PostData ELSE {EmptyBuf})
    /\ lp \in (IF op = "download" THEN LocalPaths ELSE {""})
    /\ t \in (IF op = "download" THEN BOOLEAN ELSE {FALSE})

\* faulty variant: the path alone is taken for the URL
EffectiveUrl_path(b, path) == path

\* impl_->base_ + path
EffectiveUrl(b, path) == b \o path

\* the url the executor is called with: get with params appends the query
ExecUrl(op, target, ps) ==
    IF op = "get" /\ ps # <<>> THEN query(target, ps[1]) ELSE target

\* the data the executor is called with: post with params sends them serialized
ExecData(op, ps, data) ==
    IF op = "post" /\ ps # <<>> THEN TextBuf(serialize(ps[1])) ELSE data

\* client::get / client::post / client::download / client::downloadtarball
ClientCall(h, op, path, ps, data, lp, t) ==
    /\ pc = "idle"
    /\ callCount < MaxCalls
    /\ hstate[h] = "client"
    /\ Args(op, ps, data, lp, t)
    /\ Enter([id |-> callCount + 1, op |-> op, h |-> h, free |-> FALSE,
              url |-> ExecUrl(op, EffectiveUrl(base[h], path), ps),
              data |-> ExecData(op, ps, data), path |-> lp,
              timeout |-> timeout[h],
              stale |-> (headers[h] # <<>> /\ opts[h]["HTTPHEADER"] = <<>>),
              rel |-> path, params |-> ps, tar |-> t])
    /\ jarAtBegin' = jar[h]
    /\ UNCHANGED <<hvars, nsetcookie>>
    /\ UNCHANGED xvars

\* hurl::get / hurl::post / hurl::download / hurl::downloadtarball:
\* "detail::handle curl;" per call
FreeCall(op, url, ps, data, lp, t, tmo) ==
    /\ pc = "idle"
    /\ callCount < MaxCalls
    /\ Unborn # {}
    /\ Args(op, ps, data, lp, t)
    /\ LET h == NewHandle IN
       /\ hstate' = [hstate EXCEPT ![h] = "temp"]
       /\ jar' = [jar EXCEPT ![h] = curl_easy_init]
       /\ jarAtBegin' = curl_easy_init
       /\ Enter([id |-> callCount + 1, op |-> op, h |-> h, free |-> TRUE,
                 url |-> ExecUrl(op, url, ps), data |-> ExecData(op, ps, data),
                 path |-> lp, timeout |-> tmo, stale |-> FALSE,
                 rel |-> url, params |-> ps, tar |-> t])
    /\ UNCHANGED <<base, timeout, headers, opts, engine, nrelease, nsetcookie>>
    /\ UNCHANGED xvars

SetHandle(h, st) ==
    /\ headers' = [headers EXCEPT ![h] = st.headers]
    /\ opts' = [opts EXCEPT ![h] = st.opts]
    /\ jar' = [jar EXCEPT ![h] = st.jar]
    /\ engine' = [engine EXCEPT ![h] = st.engine]

\* prepare_basic, and for post the compression and prepare_post; a setopt
\* that fails throws curl_error out of the call
Prepare(failAt, code) ==
    /\ pc = "begun"
    /\ LET h == call.h
           isPost == call.op = "post"
           fb == IF failAt \in 1..Len(BasicOpts) THEN failAt ELSE 0
           fp == IF failAt > Len(BasicOpts) THEN failAt - Len(BasicOpts) ELSE 0
           st1 == prepare_basic(HandleSt(h), call, call.op # "download", fb)
           z == compressed(call.data)
           sent == IF z THEN gzip(call.data) ELSE call.data
           st2 == IF isPost /\ fb = 0 THEN prepare_post(st1, sent, z, fp) ELSE st1
       IN /\ failAt <= Len(BasicOpts) + (IF isPost THEN Len(PostOpts) ELSE 0)
          /\ SetHandle(h, st2)
          /\ IF failAt = 0
             THEN pc' = "prepared" /\ err' = NoErr
             ELSE pc' = "raised" /\ err' = setopt(code)
    /\ UNCHANGED <<hstate, base, timeout, nrelease, call, sink, fileOpen, resp,
                   tar, fs, avars, svars>>
    /\ UNCHANGED xvars

NoBodyCodes == {CURLE_COULDNT_RESOLVE_HOST, CURLE_COULDNT_CONNECT, CURLE_GOT_NOTHING}

\* what of the server's answer r reaches the client when the transfer ends
\* with `code`: all of it on success, nothing when no answer was read, and on
\* a timeout either nothing or the headers and a body cut short
Received(code, r, part) ==
    IF code = CURLE_OK THEN r
    ELSE IF code \in NoBodyCodes \/ ~part THEN NoResponse
    ELSE [r EXCEPT !.body = Cut(r.body)]

\* handle::perform: CURLOPT_HTTPHEADER, curl_easy_perform (the transfer calls
\* headerfunc per header line and streamfunc with the body, and the cookie
\* engine stores the response's cookies), then the result code is translated
Perform(code, r, part) ==
    /\ pc = "prepared"
    /\ LET h == call.h
           e == perform(code)
           got == Received(code, r, part)
           sentCookies == IF engine[h] THEN jar[h] ELSE {}
           newCookies == IF engine[h]
                         THEN {[name |-> n, origin |-> h] : n \in got.cookies}
                         ELSE {}
           out == IF got.body = EmptyBuf THEN sink ELSE streamfunc(sink, got.body)
           parsed == [resp EXCEPT !.headers = ParseHeaders(resp.headers, got.lines)]
           bodyTo == BodyTo(opts[h], call)
           headersTo == HeadersTo(opts[h], call)
           \* a callback was handed an object that is gone: undefined
           wild == \/ bodyTo = "wild" /\ got.body # EmptyBuf
                   \/ headersTo = "wild" /\ got.lines # <<>>
       IN /\ opts' = [opts EXCEPT ![h]["HTTPHEADER"] = <<headers[h]>>]
          /\ nperform' = nperform + 1
          /\ wire' = [headers |-> [i \in 1..Len(headers[h]) |-> headers[h][i].line],
                      cookies |-> sentCookies,
                      post    |-> opts[h]["POSTFIELDS"]]
          /\ xfer' = [code |-> code, status |-> got.status, lines |-> got.lines,
                      body |-> got.body]
          /\ resp' \in IF headersTo = "own" THEN {parsed}
                        ELSE IF headersTo = "wild" THEN {parsed, resp}
                        ELSE {resp}
          /\ sink' \in IF bodyTo = "own" THEN {out}
                        ELSE IF bodyTo = "wild" THEN {out, sink}
                        ELSE {sink}
          /\ fs' = IF call.op = "download" /\ fileOpen
                   THEN [fs EXCEPT ![call.path].content = sink']
                   ELSE fs
          /\ jar' = [jar EXCEPT ![h] = @ \cup newCookies]
          /\ perr' = e
          /\ \E dies \in IF wild THEN BOOLEAN ELSE {FALSE} :
                IF dies THEN pc' = "crashed" /\ err' = NoErr
                ELSE IF e = NoErr
                THEN pc' = "performed" /\ err' = NoErr
                ELSE pc' = AfterThrow(nperform + 1) /\ err' = e
    /\ UNCHANGED <<hstate, base, timeout, headers, engine, nrelease, call,
                   fileOpen, tar, callCount, jarAtBegin, svars>>
    /\ UNCHANGED xvars

\* after perform: getinfo(CURLINFO_RESPONSE_CODE), and in get/post the body is
\* copied from the sink and process_response may gunzip it
Finish ==
    /\ pc = "performed"
    /\ LET b == str(sink)
           unz == Decodes(call.op) /\ process_response(resp.headers)
       IN IF unz /\ ~gunzipOk(b)
          THEN /\ pc' \in ErrorBranch(gunzipError(b))
               /\ err' = IF pc' = "raised"
                         THEN [kind |-> "runtime_error", code |-> 0]
                         ELSE NoErr
               /\ resp' = [resp EXCEPT !.status = RESPONSE_CODE(xfer), !.body = b]
          ELSE /\ pc' = "returned"
               /\ err' = NoErr
               /\ resp' = [resp EXCEPT !.status = RESPONSE_CODE(xfer),
                                       !.body = IF unz THEN gunzip(b)
                                                ELSE IF Decodes(call.op) THEN b
                                                ELSE @]
    /\ UNCHANGED <<hvars, call, sink, fileOpen, tar, fs, avars, svars>>
    /\ UNCHANGED xvars

\* hurl::get / post / download is left, by return or by exception: its local
\* "detail::handle curl;" is destroyed
Unwind ==
    /\ ScopeExit(pc)
    /\ call.free
    /\ hstate[call.h] = "temp"
    /\ DestroyHandle(call.h)
    /\ UNCHANGED <<base, timeout, cvars, avars, svars, fs>>
    /\ UNCHANGED xvars

\* faulty variant: any 2xx status counts
IsOk_2xx(status) == status \in 200..299

\* downloadtarball: "if (result.status == 200)"
IsOk(status) == status = 200

\* downloadtarball after its download has returned (the handle of the free
\* hurl::download is gone by now): ext::extract_tarball runs when the status
\* is 200 and throws runtime_error when libtar fails
Extract(ok) ==
    /\ pc = "returned"
    /\ tar.st = "pending"
    /\ call.free => hstate[call.h] # "temp"
    /\ IF IsOk(resp.status)
       THEN tar' = IF ok THEN [st |-> "extracted", out |-> resp]
                   ELSE [st |-> "failed",
                         out |-> [kind |-> "runtime_error", code |-> 0]]
       ELSE ok /\ tar' = [st |-> "skipped", out |-> resp]
    /\ UNCHANGED <<hvars, pc, call, sink, fileOpen, resp, err, fs, avars, svars>>
    /\ UNCHANGED xvars

\* the call is over and its outcome is with the caller: the locals are gone
Return ==
    /\ pc \in {"returned", "raised"}
    /\ tar.st # "pending" \/ pc = "raised"
    /\ call.free /\ ScopeExit(pc) => hstate[call.h] # "temp"
    /\ tar' = NoTar
    /\ pc' = "idle"
    /\ call' = NoCall
    /\ sink' = <<>>
    /\ fileOpen' = FALSE
    /\ resp' = NoResp
    /\ err' = NoErr
    /\ perr' = NoErr
    /\ nperform' = 0
    /\ wire' = NoWire
    /\ xfer' = NoXfer
    /\ jarAtBegin' = {}
    /\ UNCHANGED <<hvars, callCount, svars, fs>>
    /\ UNCHANGED xvars

\* client::setcookie: COOKIELIST "ALL" (erases the store), then one
\* COOKIELIST call per line getline yields
SetCookie(h, data) ==
    /\ pc = "idle"
    /\ hstate[h] = "client"
    /\ nsetcookie < MaxSetCookie
    /\ nsetcookie' = nsetcookie + 1
    /\ cookieOps' = <<"ALL">> \o getlines(data)
    /\ jarBefore' = jar[h]
    /\ cookieData' = data
    /\ cookieHandle' = h
    /\ jar' = [jar EXCEPT ![h] = AddCookieLines(COOKIELIST_ALL(jar[h]), getlines(data))]
    /\ engine' = [engine EXCEPT ![h] = TRUE]
    /\ UNCHANGED <<hstate, base, timeout, headers, opts, nrelease, cvars, avars, fs,
                   cookieRun>>
    /\ UNCHANGED xvars

\* the lists curl_easy_getinfo(CURLINFO_COOKIELIST) can hand out for cookie
\* store j: one newly allocated node per cookie, NULL for an empty store
COOKIELIST(j) ==
    {l \in [1..Cardinality(j) -> j] : \A a \in 1..Len(l) : \A b \in 1..Len(l) :
                                        a # b => l[a] # l[b]}

RECURSIVE WalkList(_, _)
\* client::cookie's loop: result << list->data << "\n"; list = list->next
WalkList(list, result) ==
    IF list = <<>> THEN [list |-> list, result |-> result]
    ELSE WalkList(Tail(list), result \o <<Head(list), "\n">>)

\* curl_slist_free_all(list): the nodes from `list` on are released
curl_slist_free_all(list) == list

\* client::cookie: getinfo(CURLINFO_COOKIELIST, &list), the loop, then
\* curl_slist_free_all(list) on what the loop left of `list`
Cookie(h) ==
    /\ pc = "idle"
    /\ hstate[h] = "client"
    /\ \E list \in COOKIELIST(jar[h]) :
          LET w == WalkList(list, <<>>)
          IN cookieRun' = [h |-> h, list |-> list, out |-> w.result,
                           freed |-> curl_slist_free_all(w.list)]
    /\ UNCHANGED <<hvars, cvars, avars, fs, nsetcookie, cookieOps, jarBefore,
                   cookieData, cookieHandle>>
    /\ UNCHANGED xvars

Next ==
    \/ \E b \in Bases, t \in Timeouts : ClientNew(b, t)
    \/ \E h \in HandleIds : ClientDestroy(h)
    \/ \E h \in HandleIds, op \in Ops, path \in UrlPaths, ps \in ParamArgs,
          data \in PostData \cup {EmptyBuf}, lp \in LocalPaths \cup {""},
          t \in BOOLEAN : ClientCall(h, op, path, ps, data, lp, t)
    \/ \E op \in Ops, b \in Bases, path \in UrlPaths, ps \in ParamArgs,
          data \in PostData \cup {EmptyBuf}, lp \in LocalPaths \cup {""},
          t \in BOOLEAN, tmo \in Timeouts :
          FreeCall(op, b \o path, ps, data, lp, t, tmo)
    \/ \E failAt \in FailPoints, code \in SetoptCodes :
          Prepare(failAt, code)
    \/ \E code \in TransferCodes, r \in Responses, part \in BOOLEAN :
          Perform(code, r, part)
    \/ Finish
    \/ Unwind
    \/ \E h \in HandleIds : Cookie(h)
    \/ \E ok \in BOOLEAN : Extract(ok)
    \/ Return
    \/ \E h \in HandleIds, data \in CookieData : SetCookie(h, data)

Spec == Init /\ [][Next]_vars


\* ------------------------------------- a handle's member functions, called
\* one after the other on one detail::handle
MaxHandleOps == 5

\* st is the handle, prev the handle before the last call, first the handle
\* before the first of the calls of op made in a row (repeated times so far)
HRun(st) == [pc |-> "run", st |-> st, prev |-> st, first |-> st,
             op |-> "handle", repeated |-> 0, n |-> 0]

InitH ==
    /\ InitHurl
    /\ zrun = Off
    /\ hrun = HRun(NewHandleSt)
    /\ prun = Off
    /\ srun = Off

\* the member function `op` was called and left the handle as st
Called(op, st) ==
    /\ hrun.pc = "run"
    /\ hrun.n < MaxHandleOps
    /\ hrun' = [hrun EXCEPT !.st = st, !.prev = hrun.st, !.op = op, !.n = @ + 1,
                            !.first = IF op = hrun.op THEN @ ELSE hrun.st,
                            !.repeated = IF op = hrun.op THEN @ + 1 ELSE 1]
    /\ UNCHANGED <<hurlvars, zrun, prun, srun>>

DoAddHeader(line) ==
    Called("add_header", [hrun.st EXCEPT !.headers = add_header(@, line)])

DoClearHeaders ==
    Called("clear_headers", [hrun.st EXCEPT !.headers = clear_headers(@)])

DoReset == Called("reset", reset(hrun.st))

\* handle::setopt that succeeds; COOKIEFILE turns the cookie engine on
DoSetopt(o) ==
    Called("setopt", [hrun.st EXCEPT !.opts[o] = <<1>>,
                                     !.engine = @ \/ o = "COOKIEFILE"])

\* handle::perform that succeeds: HTTPHEADER is set to the pending list and
\* an enabled cookie engine stores the cookie of the response
DoPerform ==
    Called("perform", [hrun.st EXCEPT !.opts["HTTPHEADER"] = <<hrun.st.headers>>,
                                      !.jar = IF hrun.st.engine
                                              THEN @ \cup {[name |-> <<"s">>, origin |-> 1]}
                                              ELSE @])

NextH ==
    \/ \E line \in {"Expect:", "Accept-encoding: gzip"} : DoAddHeader(line)
    \/ DoClearHeaders
    \/ DoReset
    \/ \E o \in {"URL", "TIMEOUT", "COOKIEFILE"} : DoSetopt(o)
    \/ DoPerform

SpecH == InitH /\ [][NextH]_vars


\* ------------------------------- gzip, gunzip and process_response in steps
MaxWraps == 1
INIT_BUFFER_SIZE == 10240

\* a size_t byte count: wraps * 2^32 + rem
SizeT(w, r) == [wraps |-> w, rem |-> r]

\* what a size_t becomes when it is stored in zlib's 32-bit avail_in or
\* avail_out: its low 32 bits
uInt(n) == n.rem

\* a caller's buffer is given by its size; its bytes are named by their offset
Buffers ==
    {SizeT(w, r) : w \in 0..MaxWraps,
                   r \in {0, 1, INIT_BUFFER_SIZE - 1, INIT_BUFFER_SIZE, INIT_BUFFER_SIZE + 1,
                   2 * INIT_BUFFER_SIZE, 2 * INIT_BUFFER_SIZE + 1, 4 * INIT_BUFFER_SIZE + 1}}

\* the input of gunzip: `data` bytes can be decoded from it, and after them
\* comes the stream's end ("end"), nothing ("cut": the input stops short) or
\* something that is no deflate data ("bad"); nonempty: input.size() > 0
Stream(d, t, ne) == [data |-> d, tail |-> t, nonempty |-> ne]
NoStream == Stream(0, "cut", FALSE)
Streams == {Stream(d, t, TRUE) : d \in {0, 5, INIT_BUFFER_SIZE, INIT_BUFFER_SIZE + 1,
                                        3 * INIT_BUFFER_SIZE},
                                 t \in {"end", "cut", "bad"}}
           \cup {NoStream}

\* detail::gzip: avail_in = input.size(), one deflate(Z_FINISH) into a buffer
\* of 12 + deflateBound bytes ends the stream over the avail_in bytes it saw
gzip_stream(B) == Stream(uInt(B), "end", TRUE)

\* the contents of dest as pieces [zero, from, len]: len bytes of the payload
\* from offset `from`, or len zero bytes the vector was filled with
RECURSIVE Extent(_)
Extent(c) == IF c = <<>> THEN 0 ELSE Head(c).len + Extent(Tail(c))

\* inflate wrote len payload bytes from offset `from` at dest offset `at`
Write(c, at, from, len) ==
    IF len = 0 THEN c
    ELSE LET padded == IF at > Extent(c)
                       THEN Append(c, [zero |-> TRUE, from |-> 0, len |-> at - Extent(c)])
                       ELSE c
             n == Len(padded)
         IN IF n > 0 /\ ~padded[n].zero /\ padded[n].from + padded[n].len = from
            THEN [padded EXCEPT ![n].len = @ + len]
            ELSE Append(padded, [zero |-> FALSE, from |-> from, len |-> len])

\* std::string(&dest.front(), total_out): the first n bytes of dest
RECURSIVE Prefix(_, _)
Prefix(c, n) ==
    IF n = 0 \/ c = <<>> THEN <<>>
    ELSE IF Head(c).len >= n THEN <<[Head(c) EXCEPT !.len = n]>>
    ELSE <<Head(c)>> \o Prefix(Tail(c), n - Head(c).len)

\* the outcomes of one inflate(&stream, Z_SYNC_FLUSH) with all the input
\* handed over at once: it decodes until the output space is used up or the
\* decodable bytes are out, and then meets what follows them; Z_BUF_ERROR
\* when it can neither read nor write; when the last decodable byte fills the
\* space exactly it may stop there with Z_OK or go on to what follows
inflate(s, produced, unread, avail_out) ==
    LET left == s.data - produced
        m == IF left < avail_out THEN left ELSE avail_out
    IN IF ~unread THEN {[rc |-> "Z_BUF_ERROR", out |-> 0, unread |-> FALSE]}
       ELSE IF m < left THEN {[rc |-> "Z_OK", out |-> m, unread |-> TRUE]}
       ELSE {[rc |-> CASE s.tail = "end" -> "Z_STREAM_END"
                       [] s.tail = "bad" -> "Z_DATA_ERROR"
                       [] s.tail = "cut" -> "Z_OK",
              out |-> m, unread |-> FALSE]}
            \cup (IF m = avail_out /\ m > 0 /\ s.tail # "cut"
                  THEN {[rc |-> "Z_OK", out |-> m, unread |-> TRUE]}
                  ELSE {})

\* what gunzip's loop does with inflate's return code
AfterInflate(rc) ==
    IF rc = "Z_OK" THEN "grow"
    ELSE IF rc # "Z_STREAM_END" THEN "throw"
    ELSE "return"

\* a run: gzip then gunzip of buffer B ("roundtrip"), or process_response on
\* a response with the given body whose header map the header callback has
\* filled from the given lines during the transfer ("response")
ZRun(mode, B, lines, input) ==
    [pc |-> IF mode = "roundtrip" THEN "gzip" ELSE "process_response",
     mode |-> mode, B |-> B, lines |-> lines,
     headers |-> ParseHeaders(NoHeaders, lines), input |-> input,
     dest |-> 0, next_out |-> 0, avail_out |-> 0, total_out |-> 0,
     unread |-> FALSE, rc |-> "none", content |-> <<>>, n |-> 0,
     decoded |-> FALSE, body |-> <<>>]

ZStarts == {ZRun("roundtrip", b, <<>>, NoStream) : b \in Buffers}
           \cup {ZRun("response", SizeT(0, 0), ls, s) : ls \in {Plain, SaysGzip, SaysOther}, s \in Streams}

InitZ ==
    /\ InitHurl
    /\ zrun \in ZStarts
    /\ hrun = Off
    /\ prun = Off
    /\ srun = Off

\* detail::gzip(B)
Gzip ==
    /\ zrun.pc = "gzip"
    /\ zrun' = [zrun EXCEPT !.pc = "gunzip", !.input = gzip_stream(zrun.B)]
    /\ UNCHANGED <<hurlvars, hrun, prun, srun>>

\* detail::process_response up to the call of gunzip: without the gzip
\* encoding the body stays as it was received
ProcessResponse ==
    /\ zrun.pc = "process_response"
    /\ zrun' = IF process_response(zrun.headers)
               THEN [zrun EXCEPT !.pc = "gunzip"]
               ELSE [zrun EXCEPT !.pc = "done"]
    /\ UNCHANGED <<hurlvars, hrun, prun, srun>>

\* detail::gunzip up to the loop: inflateInit2, dest(INIT_BUFFER_SIZE)
GunzipInit ==
    /\ zrun.pc = "gunzip"
    /\ zrun' = [zrun EXCEPT !.pc = "inflate",
                            !.dest = INIT_BUFFER_SIZE,
                            !.next_out = 0,
                            !.avail_out = uInt(SizeT(0, INIT_BUFFER_SIZE)),
                            !.total_out = 0,
                            !.unread = zrun.input.nonempty]
    /\ UNCHANGED <<hurlvars, hrun, prun, srun>>

\* one turn of gunzip's do-while: inflate, then grow dest on Z_OK, throw on an
\* error code, or leave the loop at Z_STREAM_END and return the string
Inflate ==
    /\ zrun.pc = "inflate"
    /\ \E o \in inflate(zrun.input, zrun.total_out, zrun.unread, zrun.avail_out) :
       \E thrown \in ErrorBranch(o.rc) :
          LET c == Write(zrun.content, zrun.next_out, zrun.total_out, o.out)
              total == zrun.total_out + o.out
              oldSize == zrun.dest
              seen == [zrun EXCEPT !.rc = o.rc, !.content = c, !.total_out = total,
                                   !.unread = o.unread, !.n = @ + 1]
          IN zrun' =
               IF AfterInflate(o.rc) = "grow"
               THEN [seen EXCEPT !.dest = oldSize * 2,
                                 !.next_out = oldSize,
                                 !.avail_out = uInt(SizeT(0, oldSize * 2 - oldSize))]
               ELSE IF AfterInflate(o.rc) = "throw"
               THEN [seen EXCEPT !.pc = thrown]
               ELSE [seen EXCEPT !.pc = "done", !.decoded = TRUE,
                                 !.body = Prefix(c, total)]
    /\ UNCHANGED <<hurlvars, hrun, prun, srun>>

NextZ ==
    \/ Gzip
    \/ ProcessResponse
    \/ GunzipInit
    \/ Inflate

\* the code runs on until it returns or throws
SpecZ == InitZ /\ [][NextZ]_vars /\ WF_vars(NextZ)


\* ------------------------------------- the header callback, line by line
MaxLines == 3

\* lines libcurl hands to the header callback: a status line, the empty line
\* that ends the header, and header lines with upper case in the name, a
\* repeated name, white space on both sides of the value and inside it, white
\* space around the name, a second ':' and an empty value
ReceivedLine ==
    [A1 |-> <<"A",":"," ","1","\r","\n">>,
     A2 |-> <<"a",":","\t","2"," ","\r","\n">>,
     XY |-> <<"X","-","Y",":","a",":","b","\r","\n">>,
     K |-> <<" ","K"," ",":"," ","v"," ","w"," ","\r","\n">>,
     E |-> <<"E",":","\r","\n">>,
     End |-> <<"\r","\n">>]
ReceivedLines == {StatusLine} \cup {ReceivedLine[f] : f \in DOMAIN ReceivedLine}

RECURSIVE SeqsUpTo(_, _)
\* the sequences of at most n elements of S
SeqsUpTo(S, n) ==
    IF n = 0 THEN {<<>>}
    ELSE LET shorter == SeqsUpTo(S, n - 1)
         IN shorter \cup {Append(q, x) : q \in {t \in shorter : Len(t) = n - 1}, x \in S}

\* one transfer's header lines, i of them delivered so far; ret is what the
\* last callback returned to libcurl
PRun(lines) == [pc |-> "headers", lines |-> lines, i |-> 0,
                headers |-> NoHeaders, ret |-> 0]

InitP ==
    /\ InitHurl
    /\ zrun = Off
    /\ hrun = Off
    /\ prun \in {PRun(ls) : ls \in SeqsUpTo(ReceivedLines, MaxLines)}
    /\ srun = Off

\* detail::headerfunc(ptr, size, nmemb, resp) on the next line: size * nmemb
\* is the line's length, and it is what the callback returns
HeaderFunc ==
    /\ prun.pc = "headers"
    /\ prun.i < Len(prun.lines)
    /\ LET line == prun.lines[prun.i + 1]
       IN prun' = [prun EXCEPT !.i = @ + 1,
                               !.headers = headerfunc(@, line),
                               !.ret = Len(line)]
    /\ UNCHANGED <<hurlvars, zrun, hrun, srun>>

NextP == HeaderFunc

SpecP == InitP /\ [][NextP]_vars


\* ------------------------------------------- serialize on a map being built
MaxPairs == 3

\* keys and values a caller puts into an httpparams: keys whose order by
\* character code differs from the alphabetical one, a key with a space, a
\* value with the separators in it and an empty value
ParamText ==
    [B |-> <<"B">>, a |-> <<"a">>, ab |-> <<"a"," ","b">>,
     one |-> <<"1">>, sep |-> <<"x","&","y","=","z">>, none |-> <<>>]

\* the orders in which at most MaxPairs entries with different keys are put in
Insertions ==
    {q \in SeqsUpTo({<<k, v>> : k \in {ParamText.B, ParamText.a, ParamText.ab},
                               v \in {ParamText.one, ParamText.sep, ParamText.none}},
                    MaxPairs) :
        \A i \in 1..Len(q) : \A j \in 1..Len(q) : i # j => q[i][1] # q[j][1]}

\* a caller builds an httpparams entry by entry and then has it serialized
SRun(q) == [pc |-> "build", order |-> q, i |-> 0, params |-> [k \in {} |-> <<>>], out |-> <<>>]

InitS ==
    /\ InitHurl
    /\ zrun = Off
    /\ hrun = Off
    /\ prun = Off
    /\ srun \in {SRun(q) : q \in Insertions}

\* params[key] = value on a std::map<std::string, std::string>
MapInsert ==
    /\ srun.pc = "build"
    /\ srun.i < Len(srun.order)
    /\ LET key == srun.order[srun.i + 1][1]
           value == srun.order[srun.i + 1][2]
       IN srun' = [srun EXCEPT !.i = @ + 1,
                               !.params = [k \in (DOMAIN @) \cup {key} |->
                                              IF k = key THEN value ELSE @[k]]]
    /\ UNCHANGED <<hurlvars, zrun, hrun, prun>>

\* detail::serialize(params)
Serialize ==
    /\ srun.pc = "build"
    /\ srun.i = Len(srun.order)
    /\ srun' = [srun EXCEPT !.pc = "done", !.out = serialize(srun.params)]
    /\ UNCHANGED <<hurlvars, zrun, hrun, prun>>

NextS ==
    \/ MapInsert
    \/ Serialize

SpecS == InitS /\ [][NextS]_vars


\* ------------------------------------------------------------------ claims
InCall == pc # "idle"
Performed == nperform > 0
WireLines == {wire.headers[i] : i \in 1..Len(wire.headers)}

\* C1: when perform is about to run (the call is prepared), every pending
\* header line of the call's handle was added by this very call; none is left
\* from an earlier call on the handle, whether that call returned or raised.
C1_OnlyOwnHeaders ==
    pc = "prepared" =>
        \A i \in 1..Len(headers[call.h]) : headers[call.h][i].call = call.id

\* a later call on a session handle that an earlier, failed call had left
\* with pending header lines, now prepared with its own lines
C1_Witness ==
    /\ pc = "prepared"
    /\ call.stale
    /\ call.id > 1
    /\ headers[call.h] # <<>>

C3_CookiesIsolated ==
    /\ \A h \in HandleIds : \A c \in jar[h] : c.origin \in {0, h}
    /\ Performed => \A c \in wire.cookies : c.origin \in {0, call.h}
    /\ Performed /\ call.free => wire.cookies = {}

\* a transfer on one handle while another session holds a cookie that a
\* response stored in it
C3_Witness ==
    /\ Performed
    /\ xfer.code = CURLE_OK
    /\ \E g \in HandleIds \ {call.h} : \E c \in jar[g] : c.origin = g

\* C4: the transfer's result code decides perform's outcome: success is
\* silent, timed-out raises timeout, resolve failure raises resolve_error,
\* connect failure raises connect_error, anything else raises curl_error with
\* the same code.
C4_ErrorMapping ==
    Performed =>
        /\ xfer.code = CURLE_OK => perr = NoErr
        /\ xfer.code = CURLE_OPERATION_TIMEDOUT => perr.kind = "timeout"
        /\ xfer.code = CURLE_COULDNT_RESOLVE_HOST => perr.kind = "resolve_error"
        /\ xfer.code = CURLE_COULDNT_CONNECT => perr.kind = "connect_error"
        /\ xfer.code \notin {CURLE_OK, CURLE_OPERATION_TIMEDOUT,
                             CURLE_COULDNT_RESOLVE_HOST, CURLE_COULDNT_CONNECT}
              => perr.kind = "curl_error" /\ perr.code = xfer.code
        /\ xfer.code # CURLE_OK => pc = "raised"

\* the resolver failed and the call raised
C4_Witness ==
    /\ Performed
    /\ xfer.code = CURLE_COULDNT_RESOLVE_HOST
    /\ pc = "raised"
    /\ err.kind = "resolve_error"

\* C5: a call runs the transfer at most once, and when perform raised, the
\* call has raised that same error and returns no response.
C5_NoRetry ==
    /\ nperform <= 1
    /\ perr # NoErr => pc = "raised" /\ err = perr

\* perform raised once and the error is the call's outcome
C5_Witness ==
    /\ nperform = 1
    /\ perr # NoErr
    /\ pc = "raised"
    /\ err = perr

C7_HeadersByOperation ==
    Performed =>
        wire.headers =
            CASE call.op = "get" -> <<"Accept-encoding: gzip">>
              [] call.op = "post" ->
                    IF wire.post = <<gzip(call.data)>>
                    THEN <<"Accept-encoding: gzip", "Expect:", "Content-Encoding: gzip">>
                    ELSE <<"Accept-encoding: gzip", "Expect:">>
              [] call.op = "download" -> <<>>

\* an uncompressed POST went out with the empty Expect: line
C7_Witness ==
    /\ Performed
    /\ call.op = "post"
    /\ wire.post = <<call.data>>
    /\ wire.headers = <<"Accept-encoding: gzip", "Expect:">>


EmptyFile == [exists |-> TRUE, content |-> <<>>]

\* the statement of C8 as written: download leaves localPath existing and
\* empty before the request is prepared, and still so when a transport error
\* is raised with no body received, whatever localPath is
C8_Original ==
    call.op = "download" =>
        /\ pc = "begun" => fs[call.path] = EmptyFile
        /\ pc = "raised" /\ perr # NoErr /\ xfer.body = EmptyBuf
              => fs[call.path] = EmptyFile

\* C8 (amended): when localPath can be opened for writing, download has
\* created or truncated it before the request is prepared or performed; the
\* file then holds exactly what the transfer delivered, so it exists with 0
\* bytes when a transport error is raised with no body received, and it was
\* truncated also when the server answers with a non-2xx status.
C8_TruncatesOpenable ==
    call.op = "download" /\ Openable(call.path) =>
        /\ pc = "begun" => fs[call.path] = EmptyFile
        /\ pc = "raised" /\ perr # NoErr /\ xfer.body = EmptyBuf
              => fs[call.path] = EmptyFile
        /\ fs[call.path].exists /\ fs[call.path].content = sink

\* download to an openable path whose host did not resolve: the file is there
\* and empty
C8_Witness ==
    /\ call.op = "download"
    /\ Openable(call.path)
    /\ pc = "raised"
    /\ perr.kind = "resolve_error"
    /\ fs[call.path] = EmptyFile

SameLetter(x, y) == x = y \/ \E i \in 1..26 : {x, y} = {Upper[i], Lower[i]}
EqIgnoreCase(a, b) == Len(a) = Len(b) /\ \A i \in 1..Len(a) : SameLetter(a[i], b[i])
GzipDeclared ==
    /\ ContentEncodingKey \in DOMAIN resp.headers
    /\ EqIgnoreCase(resp.headers[ContentEncodingKey], GzipWord)
Gunzipped(b) == [b EXCEPT !.gz = @ - 1]

\* C9: a returned body is the gunzipped form of the received one exactly
\* when the call is a get or post and the response headers hold
\* content-encoding equal to gzip ignoring case; otherwise get and post return
\* the bytes as received, and download hands the received bytes to the file
\* untouched whatever the headers say.
C9_DecodeIffGzip ==
    pc = "returned" =>
        IF call.op \in {"get", "post"}
        THEN IF GzipDeclared
             THEN xfer.body.gz > 0 /\ resp.body = Gunzipped(xfer.body)
             ELSE resp.body = xfer.body
        ELSE /\ resp.body = EmptyBuf
             /\ fileOpen => fs[call.path].content =
                               (IF xfer.body = EmptyBuf THEN <<>> ELSE <<xfer.body>>)

\* a get whose response said "GZip" (not in lower case) returned the
\* decompressed payload
C9_Witness ==
    /\ pc = "returned"
    /\ call.op = "get"
    /\ GzipDeclared
    /\ resp.headers[ContentEncodingKey] # GzipWord
    /\ xfer.body = GzBody
    /\ resp.body = PlainBody

\* the statement of C10 as written: once perform has succeeded the call
\* returns a response with the transfer's status and the parsed headers
C10_Original ==
    Performed /\ perr = NoErr /\ pc \in {"returned", "raised"} =>
        /\ pc = "returned"
        /\ resp.status = xfer.status
        /\ resp.headers = ParseHeaders(NoHeaders, xfer.lines)

\* C10 (amended): once perform has succeeded, the call fails to return only
\* when it is a get or post whose response declares gzip and whose body is
\* not a complete gzip stream: it raises a decompression error, or the
\* process dies in the error branch where zlib left no message; in every
\* other case, for every status, it returns a response with the transfer's
\* status and the parsed headers.
C10_StatusNeverRaises ==
    Performed /\ perr = NoErr /\ pc \in {"returned", "raised", "crashed"} =>
        /\ pc # "returned" <=> /\ call.op \in {"get", "post"}
                               /\ GzipDeclared
                               /\ ~(xfer.body.gz > 0 /\ xfer.body.ok)
        /\ pc = "raised" => err.kind = "runtime_error"
        /\ pc = "crashed" => stream_msg(gunzipError(xfer.body)) = "NULL"
        /\ pc = "returned" => /\ resp.status = xfer.status
                              /\ resp.headers = ParseHeaders(NoHeaders, xfer.lines)

\* a call returned a 404 response with headers
C10_Witness ==
    /\ pc = "returned"
    /\ perr = NoErr
    /\ resp.status = 404
    /\ xfer.status = 404
    /\ DOMAIN resp.headers # {}

Prepared == pc = "prepared" \/ Performed
SessionUrl == base[call.h] \o call.rel

\* what a session call has configured once it is prepared: URL and TIMEOUT
\* from the session, on the session's handle
C11_Configured ==
    Prepared /\ ~call.free =>
        /\ hstate[call.h] = "client"
        /\ opts[call.h]["TIMEOUT"] = <<timeout[call.h]>>
        /\ opts[call.h]["URL"] =
              IF call.op = "get" /\ call.params # <<>>
              THEN <<SessionUrl \o <<"?">> \o serialize(call.params[1])>>
              ELSE <<SessionUrl>>
        /\ call.op = "post" /\ call.params # <<>> =>
              opts[call.h]["POSTFIELDS"] = <<TextBuf(serialize(call.params[1]))>>

\* the very first request, a get(path) on a client nothing was done with,
\* leaves the handle as hurl::get(base + path, timeout) leaves a new handle
C11_AsFreeGet ==
    /\ pc = "prepared" /\ ~call.free /\ call.op = "get" /\ call.params = <<>>
    /\ call.id = 1 /\ nsetcookie = 0
    => HandleSt(call.h) =
          prepare_basic(NewHandleSt,
                        [call EXCEPT !.free = TRUE, !.url = SessionUrl,
                                     !.timeout = timeout[call.h]],
                        TRUE, 0)

C11_Fixed ==
    \A h \in HandleIds :
        hstate[h] = "client" /\ hstate'[h] = "client"
            => base'[h] = base[h] /\ timeout'[h] = timeout[h]

\* C11: every request of a client session (get, get with params, post with
\* data, post with params, download) is configured on the session's handle
\* with the URL base ++ path (get with params appends "?" and the serialized
\* params to it, post with params sends them as the body) and the session's
\* timeout; base and timeout of a live session never change; and the first
\* get(path) of a new client configures what the free get(base ++ path) does.
C11_SessionUrlAndTimeout ==
    /\ [](C11_Configured /\ C11_AsFreeGet)
    /\ [][C11_Fixed]_vars

\* the first get on a new client, prepared with the URL "h" ++ "/a"
C11_Witness ==
    /\ pc = "prepared" /\ ~call.free /\ call.op = "get" /\ call.params = <<>>
    /\ call.id = 1 /\ nsetcookie = 0
    /\ opts[call.h]["URL"] = << <<"h", "/", "a">> >>
    /\ opts[call.h]["TIMEOUT"] = <<30>>

\* C12: a handle is released at most once, and exactly once when its owner's
\* lifetime is over: no free function's handle is left alive once the call is
\* over or the caller has its outcome, whether the call returned or raised in
\* option setting, in perform or in decompression; a destroyed session's
\* handle is released; and a released handle has no pending header line left.
C12_ReleasedOnce ==
    /\ \A h \in HandleIds :
          /\ nrelease[h] <= 1
          /\ hstate[h] = "released" <=> nrelease[h] = 1
          /\ hstate[h] = "released" => headers[h] = <<>>
    /\ pc = "idle" => \A h \in HandleIds : hstate[h] # "temp"
    /\ tar.st \notin {"none", "pending"} /\ call.free => nrelease[call.h] = 1

\* a free get or post whose transfer timed out after its header lines were put on
\* the wire: the error is on its way to the caller and the handle is released
C12_Witness ==
    /\ pc = "raised"
    /\ call.free
    /\ perr.kind = "timeout"
    /\ wire.headers # <<>>
    /\ hstate[call.h] = "released"
    /\ nrelease[call.h] = 1
    /\ headers[call.h] = <<>>

ZEnded == zrun.pc \in {"done", "raised"}
WholeBuffer(n) == IF n = 0 THEN <<>> ELSE <<[zero |-> FALSE, from |-> 0, len |-> n]>>
SameBytes(body, B) == B.wraps = 0 /\ body = WholeBuffer(B.rem)
RoundTripEnded == ZEnded /\ zrun.mode = "roundtrip"

\* the round trip for buffers of less than 2^32 bytes, whose size fits the
\* 32-bit avail_in
RoundTripBelow4G ==
    RoundTripEnded /\ zrun.B.wraps = 0 =>
        zrun.pc = "done" /\ SameBytes(zrun.body, zrun.B)

\* C13: when gzip and then gunzip have run on a buffer B, gunzip has returned
\* and the bytes it returned are those of B: for every B, the empty one and
\* the ones larger than the 10240 bytes gunzip's buffer starts with included.
C13_RoundTrip ==
    /\ RoundTripBelow4G
    /\ RoundTripEnded => zrun.pc = "done" /\ SameBytes(zrun.body, zrun.B)

RECURSIVE NonEmptyLines(_, _)
\* the non-empty lines of d in order, cur being the line read so far
NonEmptyLines(d, cur) ==
    LET done == IF cur = <<>> THEN <<>> ELSE <<cur>> IN
    IF d = <<>> THEN done
    ELSE IF Head(d) = "\n" THEN done \o NonEmptyLines(Tail(d), <<>>)
    ELSE NonEmptyLines(Tail(d), Append(cur, Head(d)))

SetCookieDone == cookieHandle # 0 /\ hstate[cookieHandle] = "client"

\* C14: after setCookie(data) the cookie engine of the session's handle is on
\* and the cookie-store calls it made are the opening one followed by
\* exactly one call per non-empty line of data, in the order of the lines,
\* and no call for an empty line.
C14_OneCallPerNonEmptyLine ==
    SetCookieDone =>
        /\ engine[cookieHandle]
        /\ cookieOps = <<"ALL">> \o NonEmptyLines(cookieData, <<>>)

DataLines == NonEmptyLines(cookieData, <<>>)
DataCookies ==
    {[name |-> DataLines[i], origin |-> 0] :
        i \in {k \in 1..Len(DataLines) : IsCookieLine(DataLines[k])}}

\* the statement of C15 as written: every cookie that was in the session
\* handle's store before setCookie is still in it afterwards
C15_Original ==
    SetCookieDone => jarBefore \subseteq jar[cookieHandle]

\* C15 (amended): setCookie(data) first erases every cookie in the session
\* handle's store and then adds the cookies of data's lines: afterwards the
\* cookie engine is on and the store holds exactly the cookies data
\* describes, so a cookie stored before is kept only if data has it again.
C15_ReplacesStore ==
    SetCookieDone =>
        /\ engine[cookieHandle]
        /\ jar[cookieHandle] = DataCookies

\* setCookie with two cookies on a session whose store held a cookie from an
\* earlier response: that cookie is gone
C15_Witness ==
    /\ SetCookieDone
    /\ \E c \in jarBefore : c.origin = cookieHandle /\ c \notin jar[cookieHandle]
    /\ Cardinality(jar[cookieHandle]) = 2

\* C16: reset leaves the handle with no pending header line, every option at
\* its default and the cookies and the cookie engine as they were, and a
\* second reset right after it changes nothing; clear_headers empties the
\* pending list and changes nothing else, and a second clear_headers right
\* after it changes nothing.
C16_Idempotent ==
    /\ hrun.op = "reset" =>
          /\ hrun.st.headers = <<>>
          /\ hrun.st.opts = DefaultOpts
          /\ hrun.st.jar = hrun.prev.jar
          /\ hrun.st.engine = hrun.prev.engine
    /\ hrun.op = "clear_headers" =>
          hrun.st = [hrun.prev EXCEPT !.headers = <<>>]
    /\ hrun.op \in {"reset", "clear_headers"} /\ hrun.repeated >= 2 =>
          hrun.st = hrun.prev

\* reset was called twice in a row on a handle that had a pending header
\* line, options set and a cookie stored; the cookie is still there
C16_Witness ==
    /\ hrun.op = "reset"
    /\ hrun.repeated = 2
    /\ hrun.first.headers # <<>>
    /\ hrun.first.opts # DefaultOpts
    /\ hrun.first.jar # {}
    /\ hrun.st.jar = hrun.first.jar
    /\ hrun.st = hrun.prev

ZHeaders == ParseHeaders(NoHeaders, zrun.lines)
ZGzipDeclared ==
    /\ ContentEncodingKey \in DOMAIN ZHeaders
    /\ EqIgnoreCase(ZHeaders[ContentEncodingKey], GzipWord)
CompleteStream(s) == s.tail = "end"

ZStopped == zrun.pc \in {"done", "raised", "crashed"}

\* a response that declares gzip with a body that is no complete gzip stream
\* makes process_response throw, with nothing decoded and no body returned;
\* the loop is left at Z_STREAM_END or by the throw on an error code
C17_Raises ==
    /\ ZStopped /\ zrun.mode = "response" /\ ZGzipDeclared
          /\ ~CompleteStream(zrun.input)
       => /\ zrun.pc = "raised"
          /\ ~zrun.decoded
          /\ zrun.body = <<>>
    /\ ZStopped /\ zrun.rc # "none" =>
          \/ zrun.pc = "done" /\ zrun.rc = "Z_STREAM_END"
          \/ zrun.pc = "raised" /\ zrun.rc \notin {"Z_OK", "Z_STREAM_END"}

\* C17: when the response of a get or post declares content-encoding gzip and
\* its body is not a complete gzip stream (cut short, corrupt or empty),
\* decoding throws the decompression error and no body is returned; and the
\* decompression loop comes to an end on every input, at the stream's end or
\* with that error.
C17_DecompressionError == []C17_Raises /\ <>ZEnded

\* what the code keeps of it: such a body is never decoded and never
\* returned, and where stream.msg is a text (corrupt data) the error is thrown
C17_NeverDecoded ==
    /\ ZStopped /\ zrun.mode = "response" /\ ZGzipDeclared
          /\ ~CompleteStream(zrun.input)
       => /\ zrun.pc \in {"raised", "crashed"}
          /\ ~zrun.decoded
          /\ zrun.body = <<>>
          /\ stream_msg(zrun.rc) = "text" => zrun.pc = "raised"
    /\ zrun.pc = "crashed" => zrun.rc = "Z_BUF_ERROR"

\* a gzip body cut short after more than the initial buffer holds: the loop
\* went round more than once, inflate had no input left and the error branch
\* read the null stream.msg
C17_Crashed ==
    /\ zrun.pc = "crashed"
    /\ zrun.mode = "response"
    /\ ZGzipDeclared
    /\ zrun.input.tail = "cut"
    /\ zrun.input.data > INIT_BUFFER_SIZE
    /\ zrun.n > 2
    /\ zrun.rc = "Z_BUF_ERROR"

\* what the header lines stand for, written out: the name a line is stored
\* under and its value, or no entry for a line without ':'
NoEntry == [entry |-> FALSE, name |-> <<>>, value |-> <<>>]
Entry(n, v) == [entry |-> TRUE, name |-> n, value |-> v]
Meaning(line) ==
    CASE line = StatusLine -> NoEntry
      [] line = ReceivedLine.End -> NoEntry
      [] line = ReceivedLine.A1 -> Entry(<<"a">>, <<"1">>)
      [] line = ReceivedLine.A2 -> Entry(<<"a">>, <<"2">>)
      [] line = ReceivedLine.XY -> Entry(<<"x","-","y">>, <<"a",":","b">>)
      [] line = ReceivedLine.K -> Entry(<<" ","k"," ">>, <<"v"," ","w">>)
      [] line = ReceivedLine.E -> Entry(<<"e">>, <<>>)
Delivered == SubSeq(prun.lines, 1, prun.i)
\* the delivered lines that store something under name n
LinesFor(n) == {k \in 1..prun.i : Meaning(Delivered[k]).entry /\ Meaning(Delivered[k]).name = n}
LastOf(K) == CHOOSE k \in K : \A j \in K : j <= k

\* C18: after any sequence of header lines the mapping holds exactly the
\* names of the lines with a ':', each the lower-cased text before the
\* line's first ':', with the white-space-trimmed text after that ':' of the
\* last line of that name as its value; a line without ':' leaves the
\* mapping as it was.
C18_HeaderMapping ==
    prun.pc = "headers" =>
        /\ DOMAIN prun.headers =
              {Meaning(Delivered[k]).name : k \in {j \in 1..prun.i : Meaning(Delivered[j]).entry}}
        /\ \A n \in DOMAIN prun.headers :
              prun.headers[n] = Meaning(Delivered[LastOf(LinesFor(n))]).value
        /\ prun.i > 0 => prun.ret = Len(Delivered[prun.i])

C18_ColonlessIgnored ==
    (prun.pc = "headers" /\ prun'.i = prun.i + 1
        /\ ~Meaning(prun.lines[prun.i + 1]).entry)
    => prun'.headers = prun.headers

C18_HeaderProcessor == []C18_HeaderMapping /\ [][C18_ColonlessIgnored]_vars

\* a name came twice with the status line between: the later value is stored
C18_Witness ==
    /\ prun.pc = "headers"
    /\ prun.lines = <<ReceivedLine.A1, StatusLine, ReceivedLine.A2>>
    /\ prun.i = 3
    /\ prun.headers = [n \in {<<"a">>} |-> <<"2">>]

\* the encoded forms written out, and the keys in ascending order
Encoded(t) ==
    CASE t = ParamText.B -> <<"B">>
      [] t = ParamText.a -> <<"a">>
      [] t = ParamText.ab -> <<"a","%","2","0","b">>
      [] t = ParamText.one -> <<"1">>
      [] t = ParamText.sep -> <<"x","%","2","6","y","%","3","D","z">>
      [] t = <<>> -> <<>>
Ascending == <<ParamText.B, ParamText.a, ParamText.ab>>
PairOf(params, k) == Encoded(k) \o <<"=">> \o Encoded(params[k])
RECURSIVE Joined(_, _, _)
\* the pairs of the keys Ascending[i..] that are in params, "&" before each
\* but the first
Joined(params, i, first) ==
    IF i > Len(Ascending) THEN <<>>
    ELSE IF Ascending[i] \in DOMAIN params
    THEN (IF first THEN <<>> ELSE <<"&">>) \o PairOf(params, Ascending[i])
         \o Joined(params, i + 1, FALSE)
    ELSE Joined(params, i + 1, first)
CountOf(c, t) == Cardinality({i \in 1..Len(t) : t[i] = c})
Contents(q) == [k \in {q[i][1] : i \in 1..Len(q)} |->
                   (CHOOSE pr \in {q[i] : i \in 1..Len(q)} : pr[1] = k)[2]]

\* C19: serialize gives the empty string for an empty map and otherwise one
\* encodedKey=encodedValue pair per entry in ascending order of the keys,
\* with one "&" between neighbours and none at either end; the output is the
\* same in whatever order the entries were put in.
C19_Serialize ==
    srun.pc = "done" =>
        LET n == Cardinality(DOMAIN srun.params) IN
        /\ srun.params = Contents(srun.order)
        /\ srun.out = Joined(Contents(srun.order), 1, TRUE)
        /\ n = 0 <=> srun.out = <<>>
        /\ n > 0 => /\ CountOf("&", srun.out) = n - 1
                    /\ CountOf("=", srun.out) = n
                    /\ Head(srun.out) # "&"
                    /\ srun.out[Len(srun.out)] # "&"

\* three entries put in in descending order of their keys come out ascending
C19_Witness ==
    /\ srun.pc = "done"
    /\ srun.order = << <<ParamText.ab, ParamText.sep>>, <<ParamText.a, <<>> >>, <<ParamText.B, ParamText.one>> >>
    /\ srun.out = <<"B","=","1","&","a","=","&","a","%","2","0","b","=",
                    "x","%","2","6","y","%","3","D","z">>

TarCall == call.tar /\ call.op = "download"

\* C20: in downloadtarball, free or of a client, extract_tarball has run only
\* when the download has returned with status 200; when the download raised
\* or returned another status it has not run, and the caller gets the
\* download's error or the download's response.
C20_ExtractOnlyAfter200 ==
    /\ tar.st # "none" => TarCall
    /\ tar.st \in {"extracted", "failed"} =>
          /\ pc = "returned"
          /\ perr = NoErr
          /\ resp.status = 200
          /\ xfer.status = 200
    /\ tar.st = "extracted" => tar.out = resp
    /\ tar.st = "skipped" =>
          /\ pc = "returned"
          /\ resp.status # 200
          /\ resp.status = xfer.status
          /\ tar.out = resp
    /\ TarCall /\ pc = "raised" => tar.st = "pending" /\ err # NoErr
    /\ TarCall /\ pc = "raised" /\ perr # NoErr => err = perr

\* a free downloadtarball whose download returned 201: nothing was extracted
\* and the caller gets that response
C20_Witness ==
    /\ TarCall
    /\ call.free
    /\ pc = "returned"
    /\ resp.status = 201
    /\ tar.st = "skipped"
    /\ tar.out = resp

\* when perform is about to run, the handle's body and header callbacks are
\* set to the sink and the response object of the call in progress
C21_OwnAtPerform ==
    pc = "prepared" =>
        /\ BodyTo(opts[call.h], call) = "own"
        /\ HeadersTo(opts[call.h], call) = "own"

\* perform puts the body it received into the call's sink (and through it
\* into download's file) and the header lines into the call's response
\* object; cookie() and setcookie() touch neither the sink, the response
\* object and the files nor the options of the handle
C21_Delivery ==
    /\ (pc = "prepared" /\ nperform' = nperform + 1) =>
          /\ sink' = IF xfer'.body = EmptyBuf THEN sink ELSE Append(sink, xfer'.body)
          /\ resp'.headers = ParseHeaders(resp.headers, xfer'.lines)
          /\ \A p \in LocalPaths :
                fs'[p] = IF call.op = "download" /\ fileOpen /\ p = call.path
                         THEN [fs[p] EXCEPT !.content = sink']
                         ELSE fs[p]
    /\ (nsetcookie' # nsetcookie \/ (cookieRun' # cookieRun /\ cookieRun'.h # 0)) =>
          /\ pc = "idle" /\ pc' = "idle"
          /\ UNCHANGED <<sink, resp, fs, opts, fileOpen>>

\* C21: on a session handle used again, perform writes body bytes and header
\* lines only into the sink and the response object of the call in progress;
\* the references an earlier call left on the handle are used neither by a
\* later perform nor by cookie() or setcookie().
C21_NoStaleSink == []C21_OwnAtPerform /\ [][C21_Delivery]_vars

\* the second call on a session handle that an earlier transfer had left
\* cookies on: its perform filled its own sink and response object
C21_Witness ==
    /\ pc = "performed"
    /\ ~call.free
    /\ call.id = 2
    /\ \E c \in jarAtBegin : c.origin = call.h
    /\ opts[call.h]["WRITEDATA"] = <<2>>
    /\ opts[call.h]["HEADERDATA"] = <<2>>
    /\ sink # <<>>
    /\ resp.headers # NoHeaders

CookieDone == cookieRun.h # 0
\* one line per row, each row's data followed by a newline, in list order
OneLinePerRow ==
    /\ Len(cookieRun.out) = 2 * Len(cookieRun.list)
    /\ \A i \in 1..Len(cookieRun.list) :
          /\ cookieRun.out[2 * i - 1] = cookieRun.list[i]
          /\ cookieRun.out[2 * i] = "\n"

\* what holds: the string cookie() returns has one line per row in the order
\* of the list, and no node of the list is released
C22_Lines ==
    CookieDone =>
        /\ OneLinePerRow
        /\ cookieRun.freed = <<>>

\* C22: when cookie() has returned, its string has one line per row of the
\* handle's cookie list, in list order, and every node of the list that
\* getinfo handed out has been released.
C22_ListReleased ==
    CookieDone =>
        /\ OneLinePerRow
        /\ cookieRun.freed = cookieRun.list

\* cookie() on a session whose store holds a cookie: the line is returned
\* and no node of the list was released
C22_Leaked ==
    /\ CookieDone
    /\ hstate[cookieRun.h] = "client"
    /\ Len(cookieRun.list) > 0
    /\ OneLinePerRow
    /\ cookieRun.freed = <<>>

====
